---- MODULE Spec2Model ----
(***************************************************************************)
(* Ordered collections of src/src/utils/collections.js: an object with    *)
(* two keys, `byId` (identifier -> item) and `order` (array of            *)
(* identifiers), and the helper functions that mutate and query it.       *)
(*                                                                         *)
(* Strings are sequences of one-character strings, so that "contains a    *)
(* dot", lexicographic comparison and suffixing are computed.  A          *)
(* JavaScript value is a record [t |-> type, v |-> characters]; a missing *)
(* property reads as Undefined, as it does in JavaScript.                 *)
(***************************************************************************)
EXTENDS Integers, Sequences, FiniteSets, TLC

\* Largest number of identifiers in `order`, and of committed keys in `byId`.
MaxOrder == 3

\* Longest identifier list handed to the batch deletion.
MaxBatch == 2

\* Largest number of sub-keys handed to getKey.
MaxSubKeys == 2

\* Largest rank of an item handed to the insertion sorted by rank.
MaxRank == 3

----------------------------------------------------------------------------
(* JavaScript values *)

Undefined == [t |-> "undefined", v |-> <<>>]

Null == [t |-> "null", v |-> <<>>]

Str(s) == [t |-> "string", v |-> s]

\* The number n.
Num(n) == [t |-> "number", v |-> <<n>>]

\* The characters that occur in identifiers, in the order of their UTF-16
\* code units ('.' 46 < digits 48.. < '@' 64 < 'I' 73 < lower-case letters 97..).
CodeUnitOrder ==
  << ".", "0", "1", "2", "3", "4", "5", "6", "7", "8", "9", "@", "I",
     "a", "b", "c", "d", "e", "f", "i", "l", "m", "n", "t", "u", "w", "z" >>

CodeUnit(ch) == CHOOSE i \in 1..Len(CodeUnitOrder) : CodeUnitOrder[i] = ch

\* s < t for two JavaScript strings: comparison by code units, a proper
\* prefix being smaller.
RECURSIVE StrLess(_, _)
StrLess(s, t) ==
  IF t = <<>> THEN FALSE
  ELSE IF s = <<>> THEN TRUE
  ELSE IF Head(s) # Head(t) THEN CodeUnit(Head(s)) < CodeUnit(Head(t))
  ELSE StrLess(Tail(s), Tail(t))

\* x < y for two JavaScript values as the relational operator computes it:
\* two strings compare by code units and two numbers by value; undefined
\* and a string that is no numeral convert to NaN, and every comparison
\* with NaN is false.
JsLess(x, y) ==
  \/ /\ x.t = "string"
     /\ y.t = "string"
     /\ StrLess(x.v, y.v)
  \/ /\ x.t = "number"
     /\ y.t = "number"
     /\ x.v[1] < y.v[1]

\* The property key a value converts to when it indexes an object.
PropertyKey(x) ==
  IF x.t = "string" THEN x.v
  ELSE IF x.t = "null" THEN <<"n", "u", "l", "l">>
  ELSE <<"u", "n", "d", "e", "f", "i", "n", "e", "d">>

\* s.includes('.')
IncludesDot(s) == \E i \in 1..Len(s) : s[i] = "."

----------------------------------------------------------------------------
(* Items and collections *)

NEW_ITEM_ID == <<"@", "@", "n", "e", "w", "I", "t", "e", "m">>

\* An item is an object with the properties `id`, `name` and `rank`, each
\* of which may be missing (Undefined).
Item(id, name) == [id |-> id, name |-> name, rank |-> Undefined]

RankedItem(id, name, rank) == [id |-> id, name |-> name, rank |-> rank]

\* has(object, key): whether the object has the key as an own property.
has(byId, key) == key \in DOMAIN byId

\* object[key], undefined where the object has no such property.
Lookup(object, key) == IF key \in DOMAIN object THEN object[key] ELSE Undefined

\* object[key] = value
Put(byId, key, value) ==
  [k \in DOMAIN byId \cup {key} |-> IF k = key THEN value ELSE byId[k]]

\* delete object[key]
Delete(byId, keys) == [k \in DOMAIN byId \ keys |-> byId[k]]

\* array.splice(index, 1, value): the value replaces the element at index.
Splice_Replaces(array, index, value) ==
  SubSeq(array, 1, index) \o <<value>> \o SubSeq(array, index + 2, Len(array))

\* array.splice(index, 0, value) for 0 <= index <= array.length
Splice(array, index, value) ==
  SubSeq(array, 1, index) \o <<value>> \o SubSeq(array, index + 1, Len(array))

\* pull(array, ...values): removes every occurrence of the values.
\* pull removing only the first occurrence of each value.
pull_FirstOnly(array, values) ==
  LET firsts == { i \in 1..Len(array) :
                    /\ array[i] \in values
                    /\ \A j \in 1..(i - 1) : array[j] # array[i] }
      kept(n) == Cardinality((1..n) \ firsts)
  IN  [m \in 1..kept(Len(array)) |->
         array[CHOOSE i \in (1..Len(array)) \ firsts : kept(i) = m]]

pull(array, values) == SelectSeq(array, LAMBDA x : x \notin values)

EmptyCollection == [byId |-> <<>>, order |-> <<>>]

\* hasValidId without the comparison with NEW_ITEM_ID.
hasValidId_AcceptsDraftMarker(item) ==
  /\ item.id # Undefined
  /\ item.id # Null
  /\ item.id # Str(<<>>)

\* hasValidId without the comparison with the empty string.
hasValidId_AcceptsEmpty(item) ==
  /\ item.id # Undefined
  /\ item.id # Null
  /\ item.id # Str(NEW_ITEM_ID)

hasValidId(item) ==
  /\ item.id # Undefined
  /\ item.id # Null
  /\ item.id # Str(<<>>)
  /\ item.id # Str(NEW_ITEM_ID)

----------------------------------------------------------------------------
(* Identifier resolution *)

Digits == << "1", "2", "3", "4", "5", "6", "7", "8", "9" >>

\* The k-th identifier proposed for a name: the name itself, then the name
\* with a numeric suffix.
Candidate(name, k) == IF k = 0 THEN name ELSE name \o << Digits[k] >>

\* chooseUniqueIdFromName(name, collection) of ./naming: an identifier
\* derived deterministically from the name and unique within the collection,
\* a collision being resolved by a suffix.
chooseUniqueIdFromName(name, collection) ==
  LET taken == DOMAIN collection.byId \cup
               { collection.order[i] : i \in 1..Len(collection.order) }
      k == CHOOSE n \in 0..Len(Digits) :
             /\ Candidate(name.v, n) \notin taken
             /\ \A m \in 0..(n - 1) : Candidate(name.v, m) \in taken
  IN  Candidate(name.v, k)

\* The errors thrown, by their messages; NoError when the helper returns.
MissingIdentity == "New item needs either an ID or a name"

DuplicateIdentifier == "An item with the same ID already exists"

\* The error getKey throws for an identifier with a dot.
InvalidIdentifier == "Item ID cannot contain dots"

NoError == "none"

\* ensureItemHasValidId without the test for an existing identifier.
ensureItemHasValidId_NoDuplicateCheck(collection, item) ==
  IF ~hasValidId(item)
  THEN IF item.name = Undefined
       THEN [err |-> MissingIdentity, item |-> item]
       ELSE [err |-> NoError,
             item |-> [item EXCEPT
                         !.id = Str(chooseUniqueIdFromName(item.name, collection))]]
  ELSE [err |-> NoError, item |-> item]

\* ensureItemHasValidId looking for the identifier in `order`, not in `byId`.
ensureItemHasValidId_ChecksOrder(collection, item) ==
  IF ~hasValidId(item)
  THEN IF item.name = Undefined
       THEN [err |-> MissingIdentity, item |-> item]
       ELSE [err |-> NoError,
             item |-> [item EXCEPT
                         !.id = Str(chooseUniqueIdFromName(item.name, collection))]]
  ELSE IF \E i \in 1..Len(collection.order) : collection.order[i] = item.id.v
       THEN [err |-> DuplicateIdentifier, item |-> item]
       ELSE [err |-> NoError, item |-> item]

ensureItemHasValidId(collection, item) ==
  IF ~hasValidId(item)
  THEN IF item.name = Undefined
       THEN [err |-> MissingIdentity, item |-> item]
       ELSE [err |-> NoError,
             item |-> [item EXCEPT
                         !.id = Str(chooseUniqueIdFromName(item.name, collection))]]
  ELSE IF has(collection.byId, item.id.v)
       THEN [err |-> DuplicateIdentifier, item |-> item]
       ELSE [err |-> NoError, item |-> item]

----------------------------------------------------------------------------
(* Insertion *)

\* Variants of addItemAt: `clamps` - a negative index counts from the front
\* (otherwise from the back, as splice takes it); `dropsDraft` - the draft
\* entry is deleted after a promotion; `storesFirst` - the copy is stored in
\* byId before the identifier is validated; `copies` - the identifier is
\* assigned to a copy of the caller's item (otherwise to the caller's item).
AddItemAtVariant(collection, item, index, clamps, dropsDraft, storesFirst,
                 copies) ==
  LET isNew == item.id = Str(NEW_ITEM_ID)
      ensured == ensureItemHasValidId(collection, item)
      copy == ensured.item
      id == copy.id.v
      n == Len(collection.order)
      byId1 == Put(collection.byId, id, copy)
      order1 == IF index < 0
                THEN IF clamps \/ n + index < 0
                     THEN Splice(collection.order, 0, id)
                     ELSE Splice(collection.order, n + index, id)
                ELSE IF index >= n
                     THEN Append(collection.order, id)
                     ELSE Splice(collection.order, index, id)
      byId2 == IF isNew /\ dropsDraft THEN Delete(byId1, {NEW_ITEM_ID}) ELSE byId1
  IN  IF ensured.err # NoError
      THEN [err |-> ensured.err,
            collection |->
              IF storesFirst
              THEN [collection EXCEPT
                      !.byId = Put(collection.byId, PropertyKey(item.id), item)]
              ELSE collection,
            item |-> item]
      ELSE [err |-> NoError,
            collection |-> [byId |-> byId2, order |-> order1],
            item |-> IF copies THEN item ELSE copy]

\* addItemAt without the deletion of the draft entry.
addItemAt_KeepsDraft(collection, item, index) ==
  AddItemAtVariant(collection, item, index, TRUE, FALSE, FALSE, TRUE)

\* addItemAt storing the copy before it validates the identifier.
addItemAt_StoresFirst(collection, item, index) ==
  AddItemAtVariant(collection, item, index, TRUE, TRUE, TRUE, TRUE)

\* addItemAt handing a negative index to splice.
addItemAt_NoClamp(collection, item, index) ==
  AddItemAtVariant(collection, item, index, FALSE, TRUE, FALSE, TRUE)

\* addItemAt deleting the draft entry of a promotion before it validates the
\* item.
addItemAt_DropsDraftFirst(collection, item, index) ==
  AddItemAtVariant(
    IF item.id = Str(NEW_ITEM_ID)
    THEN [collection EXCEPT !.byId = Delete(collection.byId, {NEW_ITEM_ID})]
    ELSE collection,
    item, index, TRUE, TRUE, FALSE, TRUE)

\* addItemAt deleting the draft entry after every insertion of an item
\* without a real identifier.
addItemAt_DropsDraftForUnidentified(collection, item, index) ==
  LET result == AddItemAtVariant(collection, item, index, TRUE, TRUE, FALSE, TRUE)
  IN  IF result.err = NoError /\ ~hasValidId(item)
      THEN [result EXCEPT
              !.collection.byId = Delete(result.collection.byId, {NEW_ITEM_ID})]
      ELSE result

\* addItemAt without `item = { ...item }`: the identifier is assigned to the
\* caller's item.
addItemAt_NoCopy(collection, item, index) ==
  AddItemAtVariant(collection, item, index, TRUE, TRUE, FALSE, FALSE)

\* The result of a mutating helper: the error it threw, if any, the
\* collection as it is when the helper returns or throws, and the caller's
\* item as the helper leaves it.
addItemAt(collection, item, index) ==
  LET isNew == item.id = Str(NEW_ITEM_ID)
      ensured == ensureItemHasValidId(collection, item)
      copy == ensured.item
      id == copy.id.v
      byId1 == Put(collection.byId, id, copy)
      order1 == IF index < 0
                THEN Splice(collection.order, 0, id)
                ELSE IF index >= Len(collection.order)
                     THEN Append(collection.order, id)
                     ELSE Splice(collection.order, index, id)
      byId2 == IF isNew THEN Delete(byId1, {NEW_ITEM_ID}) ELSE byId1
  IN  IF ensured.err # NoError
      THEN [err |-> ensured.err, collection |-> collection, item |-> item]
      ELSE [err |-> NoError,
            collection |-> [byId |-> byId2, order |-> order1],
            item |-> item]

\* The loop of sortedLastIndexBy: the highest index at which `value` keeps
\* the array sorted.
RECURSIVE SortedIndexLoop_Highest(_, _, _, _)
SortedIndexLoop_Highest(computed, value, low, high) ==
  IF low >= high THEN high
  ELSE LET mid == (low + high) \div 2
           oth == computed[mid + 1]
           setLow == IF value = Undefined THEN TRUE
                     ELSE IF value = Null THEN oth # Undefined
                     ELSE IF oth = Null THEN FALSE
                     ELSE ~JsLess(value, oth) /\ oth # Undefined
       IN  IF setLow
           THEN SortedIndexLoop_Highest(computed, value, mid + 1, high)
           ELSE SortedIndexLoop_Highest(computed, value, low, mid)

\* The loop of lodash's baseSortedIndexBy(array, value, iteratee) over the
\* values `computed` that the iteratee yields for the array elements: the
\* lowest index at which `value` keeps the array sorted.
RECURSIVE SortedIndexLoop(_, _, _, _)
SortedIndexLoop(computed, value, low, high) ==
  IF low >= high THEN high
  ELSE LET mid == (low + high) \div 2
           oth == computed[mid + 1]
           setLow == IF value = Undefined THEN oth # Undefined
                     ELSE IF value = Null THEN oth # Undefined /\ oth # Null
                     ELSE IF oth = Null THEN FALSE
                     ELSE JsLess(oth, value)
       IN  IF setLow
           THEN SortedIndexLoop(computed, value, mid + 1, high)
           ELSE SortedIndexLoop(computed, value, low, mid)

\* sortedIndex(array, value): the identity is the iteratee.
sortedIndex(array, value) ==
  IF Len(array) = 0 THEN 0
  ELSE SortedIndexLoop([i \in 1..Len(array) |-> Str(array[i])], value,
                       0, Len(array))

\* property(key)(item)
Getter(key, item) ==
  CASE key = "id" -> item.id
    [] key = "name" -> item.name
    [] key = "rank" -> item.rank
    [] OTHER -> Undefined

\* The iteratee addItemSorted hands to sortedIndexBy: the key of the stored
\* item of that identifier, and the key of the incoming item where no item is
\* stored under it.
SortKey(collection, item, key, id) ==
  IF has(collection.byId, PropertyKey(id))
  THEN Getter(key, collection.byId[PropertyKey(id)])
  ELSE Getter(key, item)

addItemSorted(collection, item, key) ==
  LET order == collection.order
      index ==
        IF key = "id"
        THEN sortedIndex(order, item.id)
        ELSE IF Len(order) = 0 THEN 0
             ELSE SortedIndexLoop(
                    [i \in 1..Len(order) |->
                       SortKey(collection, item, key, Str(order[i]))],
                    SortKey(collection, item, key, item.id),
                    0, Len(order))
  IN  addItemAt(collection, item, index)

\* addItemToBack inserting at the index of the last element.
addItemToBack_LastIndex(collection, item) ==
  addItemAt(collection, item, Len(collection.order) - 1)

addItemToBack(collection, item) ==
  addItemAt(collection, item, Len(collection.order))

addItemToFront(collection, item) == addItemAt(collection, item, 0)

\* replaceItemOrAddSorted replacing only an item that is stored, and adding
\* any other.
replaceItemOrAddSorted_OnlyStored(collection, item, key) ==
  IF hasValidId(item) /\ has(collection.byId, item.id.v)
  THEN [err |-> NoError,
        collection |-> [collection EXCEPT
                          !.byId = Put(collection.byId, item.id.v, item)],
        item |-> item]
  ELSE addItemSorted(collection, item, key)

replaceItemOrAddSorted(collection, item, key) ==
  IF hasValidId(item)
  THEN [err |-> NoError,
        collection |-> [collection EXCEPT
                          !.byId = Put(collection.byId, item.id.v, item)],
        item |-> item]
  ELSE addItemSorted(collection, item, key)

replaceItemOrAddToFront(collection, item) ==
  IF hasValidId(item)
  THEN [err |-> NoError,
        collection |-> [collection EXCEPT
                          !.byId = Put(collection.byId, item.id.v, item)],
        item |-> item]
  ELSE addItemToFront(collection, item)

----------------------------------------------------------------------------
(* Draft item, deletion, clearing *)

\* storeId(idStore, id): a function is called with the identifier, a plain
\* object gets it as its `id`, anything else is ignored.  `stored` is what
\* the caller's sink holds.
storeId(kind, stored, id) ==
  IF kind \in {"function", "object"} THEN Str(id) ELSE stored

\* createNewItemInFrontOf putting the draft marker at the front of `order`.
createNewItemInFrontOf_InOrder(collection) ==
  [byId |-> Put(collection.byId, NEW_ITEM_ID, Item(Str(NEW_ITEM_ID), Undefined)),
   order |-> Splice(collection.order, 0, NEW_ITEM_ID)]

\* createNewItemInFrontOf assigning a new byId that holds the draft only.
createNewItemInFrontOf_Resets(collection) ==
  [collection EXCEPT
     !.byId = Put(EmptyCollection.byId, NEW_ITEM_ID,
                  Item(Str(NEW_ITEM_ID), Undefined))]

\* createNewItemInFrontOf keeping the entry of a draft that is pending.
createNewItemInFrontOf_KeepsPending(collection) ==
  IF has(collection.byId, NEW_ITEM_ID)
  THEN collection
  ELSE [collection EXCEPT
          !.byId = Put(collection.byId, NEW_ITEM_ID,
                       Item(Str(NEW_ITEM_ID), Undefined))]

createNewItemInFrontOf(collection) ==
  [collection EXCEPT
     !.byId = Put(collection.byId, NEW_ITEM_ID, Item(Str(NEW_ITEM_ID), Undefined))]

\* deleteItemById without the removal from `order`.
deleteItemById_KeepsOrder(collection, idToRemove) ==
  [collection EXCEPT !.byId = Delete(collection.byId, {idToRemove})]

\* deleteItemById removing by splice(indexOf(id), 1): where the identifier
\* is not in `order`, the index is -1 and the last element goes.
deleteItemById_SpliceIndexOf(collection, idToRemove) ==
  LET order == collection.order
      at == IF \E i \in 1..Len(order) : order[i] = idToRemove
            THEN CHOOSE i \in 1..Len(order) :
                   /\ order[i] = idToRemove
                   /\ \A j \in 1..(i - 1) : order[j] # idToRemove
            ELSE Len(order)
  IN  [byId |-> Delete(collection.byId, {idToRemove}),
       order |-> SubSeq(order, 1, at - 1) \o SubSeq(order, at + 1, Len(order))]

\* deleteItemById removing the identifier from `order` by moving the last
\* element into its place.
deleteItemById_SwapRemove(collection, idToRemove) ==
  LET order == collection.order
      n == Len(order)
      found == { i \in 1..n : order[i] = idToRemove }
      at == CHOOSE i \in found : \A j \in found : i <= j
  IN  [byId |-> Delete(collection.byId, {idToRemove}),
       order |-> IF found = {} THEN order
                 ELSE [i \in 1..(n - 1) |-> IF i = at THEN order[n] ELSE order[i]]]

deleteItemById(collection, idToRemove) ==
  [byId |-> Delete(collection.byId, {idToRemove}),
   order |-> pull(collection.order, {idToRemove})]

\* deleteItemsByIds handing the list itself to pull, not its elements:
\* nothing is removed from `order`.
deleteItemsByIds_NoSpread(collection, idsToRemove) ==
  LET ids == { idsToRemove[i] : i \in 1..Len(idsToRemove) }
  IN  [byId |-> Delete(collection.byId, ids),
       order |-> pull(collection.order, {idsToRemove})]

\* deleteItemsByIds removing each identifier by splice(indexOf(id), 1).
RECURSIVE deleteItemsByIds_SpliceEach(_, _)
deleteItemsByIds_SpliceEach(collection, idsToRemove) ==
  IF idsToRemove = <<>> THEN collection
  ELSE deleteItemsByIds_SpliceEach(
         deleteItemById_SpliceIndexOf(collection, Head(idsToRemove)),
         Tail(idsToRemove))

\* deleteItemsByIds without the loop: the first identifier only.
deleteItemsByIds_HeadOnly(collection, idsToRemove) ==
  IF idsToRemove = <<>> THEN collection
  ELSE [byId |-> Delete(collection.byId, {Head(idsToRemove)}),
        order |-> pull(collection.order, {Head(idsToRemove)})]

deleteItemsByIds(collection, idsToRemove) ==
  LET ids == { idsToRemove[i] : i \in 1..Len(idsToRemove) }
  IN  [byId |-> Delete(collection.byId, ids),
       order |-> pull(collection.order, ids)]

clearOrderedCollection(collection) == [byId |-> <<>>, order |-> <<>>]

----------------------------------------------------------------------------
(* Copy-producing deletion *)

\* u.omit(keys) applied to an object: a new object without the keys.
omit(object, keys) == [k \in DOMAIN object \ keys |-> object[k]]

\* u.reject(id => ids.includes(id)) applied to an array: a new array
\* without the elements that are among the identifiers.
reject(array, ids) == SelectSeq(array, LAMBDA id : ~(id \in ids))

copyAndDeleteItemById(idToRemove, collection) ==
  [byId |-> omit(collection.byId, {idToRemove}),
   order |-> reject(collection.order, {idToRemove})]

copyAndDeleteItemsByIds(idsToRemove, collection) ==
  IF Len(idsToRemove) = 1
  THEN copyAndDeleteItemById(idsToRemove[1], collection)
  ELSE LET ids == { idsToRemove[i] : i \in 1..Len(idsToRemove) }
       IN  [byId |-> omit(collection.byId, ids),
            order |-> reject(collection.order, ids)]

----------------------------------------------------------------------------
(* Queries *)

\* subKeys.join('.')
RECURSIVE Join(_)
Join(subKeys) ==
  IF subKeys = <<>> THEN <<>>
  ELSE IF Len(subKeys) = 1 THEN Head(subKeys)
  ELSE Head(subKeys) \o <<".">> \o Join(Tail(subKeys))

ByIdPrefix == << "b", "y", "I", "d", "." >>

\* getKey without the test for a dot.
getKey_NoDotTest(itemId, subKeys) ==
  LET subKey == Join(subKeys)
  IN  [err |-> NoError,
       value |-> Str(IF subKey # <<>>
                     THEN ByIdPrefix \o itemId \o <<".">> \o subKey
                     ELSE ByIdPrefix \o itemId)]

\* getKey(itemId, ...subKeys): the error it throws, if any, and the string
\* it returns; an empty joined sub-key is falsy.
getKey(itemId, subKeys) ==
  IF IncludesDot(itemId)
  THEN [err |-> InvalidIdentifier, value |-> Undefined]
  ELSE LET subKey == Join(subKeys)
       IN  [err |-> NoError,
            value |-> Str(IF subKey # <<>>
                          THEN ByIdPrefix \o itemId \o <<".">> \o subKey
                          ELSE ByIdPrefix \o itemId)]

\* The property key of an array index or a small number: its numeral.
NumeralKey(n) == IF n = 0 THEN << "0" >> ELSE << Digits[n] >>

selectFirst(collection) ==
  IF Len(collection.order) = 0
  THEN Undefined
  ELSE Lookup(collection.byId, NumeralKey(0))

selectLast(collection) ==
  IF Len(collection.order) = 0
  THEN Undefined
  ELSE Lookup(collection.byId, NumeralKey(Len(collection.order) - 1))

\* isNil(value)
isNil(value) == value = Undefined \/ value = Null

\* selectOrdered without the rejection of the identifiers that resolve to
\* nothing.
selectOrdered_KeepsDangling(collection) ==
  [i \in 1..Len(collection.order) |->
     Lookup(collection.byId, collection.order[i])]

\* The collection always has an `order`; the branch for a missing `order`
\* (Object.values(byId)) is not taken.
selectOrdered(collection) ==
  SelectSeq([i \in 1..Len(collection.order) |->
               Lookup(collection.byId, collection.order[i])],
            LAMBDA value : ~isNil(value))

\* reorder keeping only the identifiers that byId holds.
reorder_DropsDangling(collection, newOrder) ==
  [collection EXCEPT
     !.order = SelectSeq(newOrder, LAMBDA id : id \in DOMAIN collection.byId)]

\* u({ order: newOrder }, collection): a new object with `order` replaced;
\* an array in the update is taken as the new value.
reorder(collection, newOrder) == [collection EXCEPT !.order = newOrder]

----------------------------------------------------------------------------
(* The state machine: a caller holding one collection and calling the      *)
(* helpers on it in any order, with any arguments.  A call is one step,    *)
(* after which `prev`, `last` and `err` tell what was called and how it    *)
(* ended; the caller then goes on (Continue) and makes its next call.      *)

VARIABLES
  collection,   \* the collection the caller holds
  prev,         \* the collection as it was before the last call
  last,         \* the last call: helper name and arguments
  err,          \* the error the last call threw, NoError if it returned
  returned,     \* the value the last call returned
  idStore,      \* the `id` the caller's sink of createNewItemInFrontOf holds
  argument      \* the caller's item object as the last call left it

vars == << collection, prev, last, err, returned, idStore, argument >>

\* Arguments the caller passes.
ValidIds == { <<"a">>, <<"a", ".", "b">> }

ItemIds ==
  { Undefined, Null, Str(<<>>), Str(NEW_ITEM_ID) } \cup { Str(s) : s \in ValidIds }

ItemNames == { Undefined, Str(<<"a">>) }

Items == { Item(id, name) : id \in ItemIds, name \in ItemNames }

Indices == (0 - 1)..(MaxOrder + 1)

SortKeys == { "id", "name" }

IdsToRemove == ValidIds \cup { NEW_ITEM_ID, <<"a", "1">>, <<"z", "z", "z">> }

BatchIds == { <<"a">>, <<"a", "1">>, NEW_ITEM_ID }

Batches == UNION { [1..n -> BatchIds] : n \in 0..MaxBatch }

IdStoreKinds == { "function", "object", "undefined" }

NoItem == Item(Undefined, Undefined)

Call(op, item, index, key, ids) ==
  [op |-> op, item |-> item, index |-> index, key |-> key, ids |-> ids]

\* The collections the model follows: at most MaxOrder positions and
\* MaxOrder committed entries.
WithinBounds(c) ==
  /\ Len(c.order) <= MaxOrder
  /\ Cardinality(DOMAIN c.byId \ {NEW_ITEM_ID}) <= MaxOrder

\* No call has been made since the caller went on.
NoCall == Call("none", NoItem, 0, "id", <<>>)

\* A call of a helper that may throw.
Step(call, result) ==
  /\ last = NoCall
  /\ WithinBounds(result.collection)
  /\ prev' = collection
  /\ last' = call
  /\ err' = result.err
  /\ collection' = result.collection
  /\ returned' = Undefined
  /\ argument' = result.item
  /\ UNCHANGED idStore

\* A call of a helper that never throws and takes no item.
StepTo(call, c) ==
  Step(call, [err |-> NoError, collection |-> c, item |-> call.item])

\* A call of a helper that returns a value and leaves its argument alone.
Query(call, value) ==
  /\ last = NoCall
  /\ prev' = collection
  /\ last' = call
  /\ err' = NoError
  /\ returned' = value
  /\ argument' = call.item
  /\ UNCHANGED << collection, idStore >>

Init ==
  /\ collection = EmptyCollection
  /\ prev = EmptyCollection
  /\ last = NoCall
  /\ err = NoError
  /\ returned = Undefined
  /\ idStore = Undefined
  /\ argument = NoItem

AddItemAt ==
  \E item \in Items, index \in Indices :
    Step(Call("addItemAt", item, index, "id", <<>>),
         addItemAt(collection, item, index))

AddItemSorted ==
  \E item \in Items, key \in SortKeys :
    Step(Call("addItemSorted", item, 0, key, <<>>),
         addItemSorted(collection, item, key))

AddItemToFront ==
  \E item \in Items :
    Step(Call("addItemToFront", item, 0, "id", <<>>),
         addItemToFront(collection, item))

AddItemToBack ==
  \E item \in Items :
    Step(Call("addItemToBack", item, 0, "id", <<>>),
         addItemToBack(collection, item))

ReplaceItemOrAddSorted ==
  \E item \in Items, key \in SortKeys :
    Step(Call("replaceItemOrAddSorted", item, 0, key, <<>>),
         replaceItemOrAddSorted(collection, item, key))

ReplaceItemOrAddToFront ==
  \E item \in Items :
    Step(Call("replaceItemOrAddToFront", item, 0, "id", <<>>),
         replaceItemOrAddToFront(collection, item))

CreateNewItemInFrontOf ==
  \E kind \in IdStoreKinds :
    /\ last = NoCall
    /\ prev' = collection
    /\ last' = Call("createNewItemInFrontOf", NoItem, 0, "id", <<>>)
    /\ err' = NoError
    /\ returned' = Undefined
    /\ idStore' = storeId(kind, idStore, NEW_ITEM_ID)
    /\ collection' = createNewItemInFrontOf(collection)
    /\ argument' = NoItem

DeleteItemById ==
  \E id \in IdsToRemove :
    StepTo(Call("deleteItemById", NoItem, 0, "id", <<id>>),
           deleteItemById(collection, id))

DeleteItemsByIds ==
  \E ids \in Batches :
    StepTo(Call("deleteItemsByIds", NoItem, 0, "id", ids),
           deleteItemsByIds(collection, ids))

ClearOrderedCollection ==
  StepTo(Call("clearOrderedCollection", NoItem, 0, "id", <<>>),
         clearOrderedCollection(collection))

\* copyAndDeleteItemById assigning its result to the collection it was given.
CopyAndDeleteItemById_InPlace ==
  \E id \in IdsToRemove :
    /\ last = NoCall
    /\ prev' = collection
    /\ last' = Call("copyAndDeleteItemById", NoItem, 0, "id", <<id>>)
    /\ err' = NoError
    /\ returned' = copyAndDeleteItemById(id, collection)
    /\ collection' = copyAndDeleteItemById(id, collection)
    /\ argument' = NoItem
    /\ UNCHANGED idStore

CopyAndDeleteItemById ==
  \E id \in IdsToRemove :
    Query(Call("copyAndDeleteItemById", NoItem, 0, "id", <<id>>),
          copyAndDeleteItemById(id, collection))

CopyAndDeleteItemsByIds ==
  \E ids \in Batches :
    Query(Call("copyAndDeleteItemsByIds", NoItem, 0, "id", ids),
          copyAndDeleteItemsByIds(ids, collection))

SelectFirst ==
  Query(Call("selectFirst", NoItem, 0, "id", <<>>), selectFirst(collection))

SelectLast ==
  Query(Call("selectLast", NoItem, 0, "id", <<>>), selectLast(collection))

SelectOrdered ==
  Query(Call("selectOrdered", NoItem, 0, "id", <<>>), selectOrdered(collection))

\* The caller goes on after a call, whether it returned or threw; the
\* collection stays as the call left it.
Continue ==
  /\ last # NoCall
  /\ prev' = collection
  /\ last' = NoCall
  /\ err' = NoError
  /\ returned' = Undefined
  /\ argument' = NoItem
  /\ UNCHANGED << collection, idStore >>

\* Arguments of the insertions sorted by rank.
RankedIds == { Undefined, Str(NEW_ITEM_ID), Str(<<"a">>), Str(<<"b">>) }

RankedNames == { Undefined, Str(<<"c">>) }

RankedItems ==
  { RankedItem(id, name, Num(rank)) :
      id \in RankedIds, name \in RankedNames, rank \in 1..MaxRank }

AddItemSortedByRank ==
  \E item \in RankedItems :
    Step(Call("addItemSorted", item, 0, "rank", <<>>),
         addItemSorted(collection, item, "rank"))

\* The caller edits the pending draft in place: it assigns a name and a
\* rank to the entry stored under the draft marker, which keeps its key and
\* its `id`.
DraftEdits ==
  { RankedItem(Str(NEW_ITEM_ID), Str(<<"c">>), Num(rank)) : rank \in 1..MaxRank }

EditDraft ==
  \E edited \in DraftEdits :
    /\ NEW_ITEM_ID \in DOMAIN collection.byId
    /\ StepTo(Call("editDraft", edited, 0, "id", <<>>),
              [collection EXCEPT
                 !.byId = Put(collection.byId, NEW_ITEM_ID, edited)])

Next ==
  \/ AddItemAt
  \/ AddItemSorted
  \/ AddItemToFront
  \/ AddItemToBack
  \/ ReplaceItemOrAddSorted
  \/ ReplaceItemOrAddToFront
  \/ CreateNewItemInFrontOf
  \/ DeleteItemById
  \/ DeleteItemsByIds
  \/ ClearOrderedCollection
  \/ CopyAndDeleteItemById
  \/ CopyAndDeleteItemsByIds
  \/ SelectFirst
  \/ SelectLast
  \/ SelectOrdered
  \/ Continue

Spec == Init /\ [][Next]_vars

\* A caller that keeps a collection sorted by rank: it inserts by rank only,
\* and opens drafts.
NextSorted ==
  \/ AddItemSortedByRank
  \/ CreateNewItemInFrontOf
  \/ Continue

SpecSorted == Init /\ [][NextSorted]_vars

\* A caller that opens drafts, edits them in place and commits them to the
\* front.
NextDraft ==
  \/ CreateNewItemInFrontOf
  \/ EditDraft
  \/ AddItemToFront
  \/ Continue

SpecDraft == Init /\ [][NextDraft]_vars

\* Arguments of getKey: identifiers with and without a dot, and sub-keys,
\* the empty one included.
KeyIds == IdsToRemove \cup { <<>>, <<".">> }

SubKeyNames ==
  { <<>>, <<"i", "d">>, <<"n", "a", "m", "e">>, <<"r", "a", "n", "k">> }

SubKeyLists == UNION { [1..n -> SubKeyNames] : n \in 0..MaxSubKeys }

\* The call records the identifier and the sub-keys as one list.
GetKey ==
  \E itemId \in KeyIds, subKeys \in SubKeyLists :
    LET result == getKey(itemId, subKeys)
    IN  /\ last = NoCall
        /\ prev' = collection
        /\ last' = Call("getKey", NoItem, 0, "id", <<itemId>> \o subKeys)
        /\ err' = result.err
        /\ returned' = result.value
        /\ argument' = NoItem
        /\ UNCHANGED << collection, idStore >>

\* A caller that builds update paths.
NextKey ==
  \/ GetKey
  \/ Continue

SpecKey == Init /\ [][NextKey]_vars

\* The deletions take any object of the collection's shape: `order` may
\* repeat an identifier or hold one that `byId` lacks, and `byId` may hold
\* one that `order` lacks.
AnyIds == { <<"a">>, <<"a", "1">>, <<"a", ".", "b">> }

AnyOrders == UNION { [1..n -> AnyIds] : n \in 0..MaxOrder }

AnyCollections ==
  { [byId |-> [k \in keys |-> Item(Str(k), Undefined)], order |-> order] :
      keys \in SUBSET AnyIds, order \in AnyOrders }

\* reorder takes any array of identifiers as the new order.
Reorder ==
  \E newOrder \in AnyOrders :
    Query(Call("reorder", NoItem, 0, "id", newOrder),
          reorder(collection, newOrder))

InitAny ==
  /\ collection \in AnyCollections
  /\ prev = collection
  /\ last = NoCall
  /\ err = NoError
  /\ returned = Undefined
  /\ idStore = Undefined
  /\ argument = NoItem

NextAny ==
  \/ DeleteItemById
  \/ DeleteItemsByIds
  \/ CopyAndDeleteItemById
  \/ CopyAndDeleteItemsByIds
  \/ SelectOrdered
  \/ Reorder
  \/ Continue

SpecAny == InitAny /\ [][NextAny]_vars

----------------------------------------------------------------------------
(* Vocabulary of the properties *)

\* The identifiers that occur in an order.
Elements(order) == { order[i] : i \in 1..Len(order) }

\* The number of positions of an order that hold the identifier.
Occurrences(order, id) == Cardinality({ i \in 1..Len(order) : order[i] = id })

\* The order without its position p (1-based).
Without(order, p) == SubSeq(order, 1, p - 1) \o SubSeq(order, p + 1, Len(order))

\* s is the beginning of t.
IsPrefix(s, t) == Len(s) <= Len(t) /\ SubSeq(t, 1, Len(s)) = s

InsertionOps == { "addItemAt", "addItemSorted", "addItemToFront", "addItemToBack" }

\* The values of `id` that are no real identifier: missing, null, empty,
\* the draft marker.
NoRealId == { Undefined, Null, Str(<<>>), Str(NEW_ITEM_ID) }

\* The last call was an insertion of an item with a real identifier.
InsertedWithId == last.op \in InsertionOps /\ last.item.id \notin NoRealId

\* The last call was an insertion of an item that carries the draft marker
\* and a name, made while a draft was pending.
PromotionCall ==
  /\ last.op \in InsertionOps
  /\ last.item.id = Str(NEW_ITEM_ID)
  /\ last.item.name # Undefined
  /\ NEW_ITEM_ID \in DOMAIN prev.byId

\* I2 of a collection: every key of byId but the draft marker is at exactly
\* one position of order, and every identifier of order is a key of byId.
Linked(c) ==
  /\ \A k \in DOMAIN c.byId \ {NEW_ITEM_ID} : Occurrences(c.order, k) = 1
  /\ Elements(c.order) \subseteq DOMAIN c.byId

----------------------------------------------------------------------------
(* Claims *)

\* C1 (I1): in every state reached from the empty collection by the mutation
\* operations, no identifier occurs more than once in `order`.
C1_OrderHasNoDuplicates ==
  \A i, j \in 1..Len(collection.order) :
    collection.order[i] = collection.order[j] => i = j

\* C1 witness: an insertion of an identifier that is already in a full order
\* was attempted, and the order holds MaxOrder different identifiers.
C1_Witness ==
  /\ InsertedWithId
  /\ last.item.id.v \in Elements(prev.order)
  /\ Len(collection.order) = MaxOrder

\* C2 as stated (I2): after any sequence of the mutation operations every
\* key of `byId` other than the draft marker is at exactly one position of
\* `order` and every identifier of `order` is a key of `byId`.
C2_AlwaysLinked == Linked(collection)

\* The last call was replaceItemOrAddSorted or replaceItemOrAddToFront with an
\* item whose real identifier was not a key of byId.
ReplacedAbsent ==
  /\ last.op \in { "replaceItemOrAddSorted", "replaceItemOrAddToFront" }
  /\ last.item.id \notin NoRealId
  /\ last.item.id.v \notin DOMAIN prev.byId

\* C2 amended: a mutation operation keeps I2 (what held before the call
\* holds after it), except replaceItemOrAddSorted / replaceItemOrAddToFront
\* called with a real identifier that is no key of `byId`.
C2_LinkedIsKept == (Linked(prev) /\ ~ReplacedAbsent) => Linked(collection)

\* C2 witness: an item was replaced under its identifier in a linked
\* collection of two items.
C2_Witness ==
  /\ last.op = "replaceItemOrAddToFront"
  /\ last.item.id \notin NoRealId
  /\ last.item.id.v \in DOMAIN prev.byId
  /\ collection.byId # prev.byId
  /\ Linked(prev)
  /\ Len(prev.order) = 2

\* C3 (I3): the draft marker never occurs in `order`, and at most one entry
\* of `byId` is a draft-marker entity.
C3_DraftExcluded ==
  /\ NEW_ITEM_ID \notin Elements(collection.order)
  /\ Cardinality({ k \in DOMAIN collection.byId :
                     collection.byId[k].id = Str(NEW_ITEM_ID) }) <= 1

\* C3 witness: an item carrying the draft marker was inserted into a
\* collection of two items while no draft was pending.
C3_Witness ==
  /\ last.op \in InsertionOps
  /\ last.item.id = Str(NEW_ITEM_ID)
  /\ err = NoError
  /\ NEW_ITEM_ID \notin DOMAIN prev.byId
  /\ Len(collection.order) = 3

\* C4: an insertion of an item whose real identifier is already a key of
\* `byId` fails with DuplicateIdentifier.
C4_DuplicateRejected ==
  (InsertedWithId /\ last.item.id.v \in DOMAIN prev.byId)
    => err = DuplicateIdentifier

\* C4 witness: such an insertion of an identifier that is a key of byId
\* without being in order.
C4_Witness ==
  /\ InsertedWithId
  /\ last.item.id.v \in DOMAIN prev.byId
  /\ last.item.id.v \notin Elements(prev.order)
  /\ err = DuplicateIdentifier

\* C5: an insertion of an item without a real identifier and without a name
\* fails with MissingIdentity and adds nothing.
C5_MissingIdentityRejected ==
  (last.op \in InsertionOps /\ last.item.id \in NoRealId
     /\ last.item.name = Undefined)
    => (err = MissingIdentity /\ collection = prev)

\* C5 witness: the item with the empty identifier and no name was handed to
\* an insertion into a collection with a pending draft.
C5_Witness ==
  /\ last.op \in InsertionOps
  /\ last.item = Item(Str(<<>>), Undefined)
  /\ NEW_ITEM_ID \in DOMAIN prev.byId
  /\ err = MissingIdentity

\* C6 (I4): an insertion of an item whose identifier contains '.' fails with
\* InvalidIdentifier, and no identifier stored in `byId` or `order`
\* contains '.'.
C6_DottedIdentifierRejected ==
  /\ (InsertedWithId /\ IncludesDot(last.item.id.v)) => err = InvalidIdentifier
  /\ \A k \in DOMAIN collection.byId \cup Elements(collection.order) :
       ~IncludesDot(k)

\* C7: an insertion of an item that carries the draft marker and a name,
\* made while a draft is pending, succeeds; afterwards `byId` has no draft
\* marker, holds the item under a new key derived from the name, and `order`
\* holds that key exactly once.
C7_DraftPromotion ==
  PromotionCall =>
    /\ err = NoError
    /\ NEW_ITEM_ID \notin DOMAIN collection.byId
    /\ \E k \in DOMAIN collection.byId \ DOMAIN prev.byId :
         /\ IsPrefix(last.item.name.v, k)
         /\ collection.byId[k] = Item(Str(k), last.item.name)
         /\ Occurrences(collection.order, k) = 1
         /\ DOMAIN collection.byId =
              (DOMAIN prev.byId \ {NEW_ITEM_ID}) \cup {k}

\* C7 witness: a draft was promoted into a collection that held an item.
C7_Witness ==
  /\ PromotionCall
  /\ err = NoError
  /\ Len(prev.order) >= 1

\* C8: createNewItemInFrontOf puts {id: draft marker} under the draft-marker
\* key of `byId` and leaves `order` and every other entry of `byId` as they
\* were; afterwards `byId` has the draft marker and `order` has not.
C8_CreateDraftFrame ==
  last.op = "createNewItemInFrontOf" =>
    /\ err = NoError
    /\ collection.order = prev.order
    /\ DOMAIN collection.byId = DOMAIN prev.byId \cup {NEW_ITEM_ID}
    /\ collection.byId[NEW_ITEM_ID] = Item(Str(NEW_ITEM_ID), Undefined)
    /\ \A k \in DOMAIN prev.byId \ {NEW_ITEM_ID} :
         collection.byId[k] = prev.byId[k]
    /\ NEW_ITEM_ID \notin Elements(collection.order)

\* C8 witness: a draft was created in a collection of two items that had no
\* draft.
C8_Witness ==
  /\ last.op = "createNewItemInFrontOf"
  /\ NEW_ITEM_ID \notin DOMAIN prev.byId
  /\ Len(prev.order) = 2

\* The name of the item of the last call is already a key of byId.
NameCollides ==
  /\ last.item.name # Undefined
  /\ last.item.name.v \in DOMAIN prev.byId

Clamp(index, n) == IF index < 0 THEN 0 ELSE IF index > n THEN n ELSE index

\* C10: a successful addItemAt(collection, item, index) makes the new
\* identifier the element at position clamp(index, 0, len(order)) of
\* `order`, the identifiers that were there keeping their relative order.
C10_AddItemAtPosition ==
  (last.op = "addItemAt" /\ err = NoError) =>
    LET n == Len(prev.order)
        p == Clamp(last.index, n) + 1
    IN  /\ Len(collection.order) = n + 1
        /\ collection.order[p] \notin Elements(prev.order)
        /\ collection.order[p] \in DOMAIN collection.byId
        /\ collection.byId[collection.order[p]].name = last.item.name
        /\ last.item.id \notin NoRealId => collection.order[p] = last.item.id.v
        /\ Without(collection.order, p) = prev.order

\* C10 witness: an item was added at index 1 of an order of two identifiers.
C10_Witness ==
  /\ last.op = "addItemAt"
  /\ err = NoError
  /\ last.index = 1
  /\ Len(prev.order) = 2

\* The identifiers the last call was to remove.
Removed == Elements(last.ids)

\* The collection c without the identifiers S: byId without these keys, the
\* other entries as they are, and order without these identifiers, the
\* others in their order.
IsRemoval(result, c, S) ==
  /\ DOMAIN result.byId = DOMAIN c.byId \ S
  /\ \A k \in DOMAIN result.byId : result.byId[k] = c.byId[k]
  /\ Len(result.order) = Cardinality({ i \in 1..Len(c.order) : c.order[i] \notin S })
  /\ \A i \in 1..Len(result.order) :
       \E j \in i..Len(c.order) :
         /\ result.order[i] = c.order[j]
         /\ Cardinality({ m \in 1..j : c.order[m] \notin S }) = i

MutatingDeletions == { "deleteItemById", "deleteItemsByIds" }

CopyingDeletions == { "copyAndDeleteItemById", "copyAndDeleteItemsByIds" }

\* The identifiers of S that are a key of byId or occur in order.
Present(c, S) == S \cap (DOMAIN c.byId \cup Elements(c.order))

\* C13: after a deletion no deleted identifier is a key of `byId` or occurs
\* in `order`: of the collection for deleteItemById / deleteItemsByIds, of
\* the returned collection for copyAndDeleteItemById /
\* copyAndDeleteItemsByIds.
C13_DeletedFromBoth ==
  /\ last.op \in MutatingDeletions =>
       Removed \cap (DOMAIN collection.byId \cup Elements(collection.order)) = {}
  /\ last.op \in CopyingDeletions =>
       Removed \cap (DOMAIN returned.byId \cup Elements(returned.order)) = {}

\* C13 witness: a batch of two identifiers, both stored and in order, was
\* deleted.
C13_Witness ==
  /\ last.op = "deleteItemsByIds"
  /\ Cardinality(Removed) = 2
  /\ Removed \subseteq DOMAIN prev.byId
  /\ Removed \subseteq Elements(prev.order)

Repeats(c, id) == Occurrences(c.order, id) > 1

\* An identifier occurs in the order of c and is no key of its byId.
Dangles(c, id) == id \in Elements(c.order) /\ id \notin DOMAIN c.byId

C18_InsertDeleteRoundTrip ==
  (InsertedWithId /\ err = NoError) =>
    deleteItemById(collection, last.item.id.v) = prev

\* C18 witness: an item with a real identifier was inserted into the middle
\* of an order, beside a pending draft.
C18_Witness ==
  /\ InsertedWithId
  /\ err = NoError
  /\ Len(prev.order) = 2
  /\ collection.order[2] = last.item.id.v
  /\ NEW_ITEM_ID \in DOMAIN prev.byId

\* The entity at position p of the order of c, undefined for an empty order.
EntityAt(c, p) ==
  IF c.order = <<>> THEN Undefined ELSE Lookup(c.byId, c.order[p])

\* C19: selectFirst returns the entity stored under the first identifier of
\* `order`, and undefined for an empty `order`.
C19_SelectFirstIsFirst ==
  last.op = "selectFirst" => returned = EntityAt(collection, 1)

\* C20: selectLast returns the entity stored under the last identifier of
\* `order`, and undefined for an empty `order`.
C20_SelectLastIsLast ==
  last.op = "selectLast" =>
    returned = EntityAt(collection, Len(collection.order))

\* The positions of the order of c whose identifier resolves to an entity,
\* and those whose identifier dangles.
ResolvedPositions(c) ==
  { i \in 1..Len(c.order) : c.order[i] \in DOMAIN c.byId }

DanglingPositions(c) ==
  { i \in 1..Len(c.order) : c.order[i] \notin DOMAIN c.byId }

\* The m-th resolved position of the order of c.
ResolvedPosition(c, m) ==
  CHOOSE i \in ResolvedPositions(c) :
    Cardinality({ j \in ResolvedPositions(c) : j <= i }) = m

\* C21: selectOrdered returns the entities of the identifiers of `order`
\* that resolve, in their order in `order`; the dangling ones are dropped
\* without error, so the length is that of `order` less the number of
\* dangling occurrences.
C21_SelectOrderedResolves ==
  last.op = "selectOrdered" =>
    /\ err = NoError
    /\ Len(returned) = Len(collection.order)
                         - Cardinality(DanglingPositions(collection))
    /\ \A m \in 1..Len(returned) :
         returned[m] =
           collection.byId[collection.order[ResolvedPosition(collection, m)]]

\* C21 witness: an order of three with a dangling identifier between two
\* that resolve to different entities.
C21_Witness ==
  /\ last.op = "selectOrdered"
  /\ Len(collection.order) = 3
  /\ DanglingPositions(collection) = {2}
  /\ Len(returned) = 2
  /\ returned[1] # returned[2]

\* C22: reorder returns the collection with `order` replaced by newOrder as
\* it is given, duplicates and dangling identifiers included, and with the
\* same `byId`; the collection it was given stays as it was.
C22_ReorderReplacesOrder ==
  last.op = "reorder" =>
    /\ err = NoError
    /\ returned.order = last.ids
    /\ returned.byId = prev.byId
    /\ collection = prev

\* C22 witness: a new order that repeats an identifier and holds a dangling
\* one was given for a different order.
C22_Witness ==
  /\ last.op = "reorder"
  /\ \E id \in Elements(last.ids) : Occurrences(last.ids, id) > 1
  /\ \E id \in Elements(last.ids) : id \notin DOMAIN prev.byId
  /\ prev.order # last.ids
  /\ prev.byId # << >>
  /\ returned.order = last.ids

ReplacingOps == { "replaceItemOrAddSorted", "replaceItemOrAddToFront" }

\* C23: an insertion never modifies the caller's item: after the call,
\* whether it returned or threw and whether an identifier was derived, the
\* caller's item is as it was handed over, its `id` included.
C23_CallerItemUntouched ==
  last.op \in InsertionOps \cup ReplacingOps => argument = last.item

\* C23 witness: an item without an identifier was inserted under an
\* identifier derived from its name, which the stored copy carries and the
\* caller's item does not.
C23_Witness ==
  /\ last.op = "addItemAt"
  /\ err = NoError
  /\ last.item.id = Undefined
  /\ argument.id = Undefined
  /\ \E k \in DOMAIN collection.byId \ DOMAIN prev.byId :
       /\ collection.byId[k].id = Str(k)
       /\ collection.byId[k].name = last.item.name

\* C24: a draft created in a collection without a pending draft and then
\* deleted by the draft marker, with no insertion in between, leaves the
\* collection as it was before the draft was created.
C24_DraftDiscard ==
  (last.op = "createNewItemInFrontOf" /\ NEW_ITEM_ID \notin DOMAIN prev.byId) =>
    deleteItemById(collection, NEW_ITEM_ID) = prev

\* C24 witness: a draft was created in a collection of three items, and
\* deleting it gives the three items back.
C24_Witness ==
  /\ last.op = "createNewItemInFrontOf"
  /\ NEW_ITEM_ID \notin DOMAIN prev.byId
  /\ Len(prev.order) = 3
  /\ Cardinality(DOMAIN prev.byId) = 3
  /\ collection # prev
  /\ deleteItemById(collection, NEW_ITEM_ID) = prev

\* The identifier under which the last insertion stored its item: the
\* item's own, or the one derived from its name.
StoredId ==
  IF last.item.id \notin NoRealId
  THEN last.item.id.v
  ELSE CHOOSE k \in DOMAIN collection.byId \ DOMAIN prev.byId : TRUE

\* C25: after a successful addItemToFront the identifier of the new entity
\* is the first element of `order`, after a successful addItemToBack the
\* last, and the other identifiers follow or precede it in their order.
C25_FrontAndBack ==
  /\ (last.op = "addItemToFront" /\ err = NoError) =>
       /\ StoredId \in DOMAIN collection.byId
       /\ collection.order = << StoredId >> \o prev.order
  /\ (last.op = "addItemToBack" /\ err = NoError) =>
       /\ StoredId \in DOMAIN collection.byId
       /\ collection.order = prev.order \o << StoredId >>

\* C25 witness: an item was added to the back of an order of two under an
\* identifier derived from its name.
C25_Witness ==
  /\ last.op = "addItemToBack"
  /\ err = NoError
  /\ last.item.id \in NoRealId
  /\ Len(prev.order) = 2
  /\ collection.order[3] = StoredId

\* The order is sorted by identifier: no identifier is smaller than the one
\* before it.
SortedById(order) ==
  \A i \in 1..(Len(order) - 1) : ~StrLess(order[i + 1], order[i])

\* C26: addItemSorted by identifier keeps a sorted `order` sorted also when
\* the item has no identifier, or the draft marker, and is stored under an
\* identifier derived from its name.
C26_DerivedIdSorted ==
  ( /\ last.op = "addItemSorted"
    /\ last.key = "id"
    /\ err = NoError
    /\ last.item.id \in NoRealId
    /\ SortedById(prev.order) ) =>
  SortedById(collection.order)

\* C27: an insertion or replace-or-add that throws MissingIdentity or
\* DuplicateIdentifier leaves `byId`, a pending draft entry included, and
\* `order` as they were before the call.
C27_FailedInsertionAtomic ==
  ( /\ last.op \in InsertionOps \cup ReplacingOps
    /\ err \in { MissingIdentity, DuplicateIdentifier } ) =>
  collection = prev

\* C27 witness: while a draft was pending beside two items, a replace-or-add
\* of an item with the draft marker and no name threw MissingIdentity.
C27_Witness ==
  /\ last.op \in ReplacingOps
  /\ last.item = Item(Str(NEW_ITEM_ID), Undefined)
  /\ err = MissingIdentity
  /\ NEW_ITEM_ID \in DOMAIN prev.byId
  /\ Len(prev.order) = 2
  /\ collection = prev

\* The last call changed byId at the identifier of its item only, where
\* it stored the item, and left order as it was.
ReplacedInPlace ==
  /\ err = NoError
  /\ collection.order = prev.order
  /\ DOMAIN collection.byId = DOMAIN prev.byId \cup { last.item.id.v }
  /\ collection.byId[last.item.id.v] = last.item
  /\ \A k \in DOMAIN prev.byId \ { last.item.id.v } :
       collection.byId[k] = prev.byId[k]

\* The last call ended as the insertion `result` of its item into the
\* collection before the call.
EndedAs(result) ==
  /\ err = result.err
  /\ collection = result.collection

\* C29: replaceItemOrAddSorted and replaceItemOrAddToFront with an item that
\* has a real identifier store the item under it and leave `order` as it
\* was; with any other item they do what addItemSorted and addItemToFront
\* do.
C29_ReplaceOrAdd ==
  /\ last.op = "replaceItemOrAddSorted" =>
       IF last.item.id \notin NoRealId
       THEN ReplacedInPlace
       ELSE EndedAs(addItemSorted(prev, last.item, last.key))
  /\ last.op = "replaceItemOrAddToFront" =>
       IF last.item.id \notin NoRealId
       THEN ReplacedInPlace
       ELSE EndedAs(addItemToFront(prev, last.item))

\* C29 witness: replaceItemOrAddSorted replaced the stored entry of an
\* identifier by an item of another name, in an order of two.
C29_Witness ==
  /\ last.op = "replaceItemOrAddSorted"
  /\ last.item.id \notin NoRealId
  /\ last.item.id.v \in Elements(prev.order)
  /\ prev.byId[last.item.id.v] # last.item
  /\ collection.byId[last.item.id.v] = last.item
  /\ Len(collection.order) = 2

\* The last call is one that ends a draft: a successful insertion of an item
\* that carries the draft marker, a deletion that names the draft marker, or
\* clearOrderedCollection.
EndsDraft ==
  \/ /\ last.op \in InsertionOps \cup ReplacingOps
     /\ last.item.id = Str(NEW_ITEM_ID)
     /\ err = NoError
  \/ /\ last.op \in MutatingDeletions
     /\ NEW_ITEM_ID \in Removed
  \/ last.op = "clearOrderedCollection"

\* C30: the draft entry stays in `byId` through every step but a
\* successful insertion of an item that carries the draft marker, a
\* deletion that names the draft marker, and clearOrderedCollection.
C30_DraftPersists ==
  [][ ( /\ NEW_ITEM_ID \in DOMAIN collection.byId
        /\ NEW_ITEM_ID \notin DOMAIN collection'.byId ) => EndsDraft' ]_vars

\* C30 witness: while a draft was pending, an item without an identifier
\* was inserted under its name and the draft entry is still there.
C30_Witness ==
  /\ last.op \in InsertionOps
  /\ err = NoError
  /\ last.item.id = Undefined
  /\ last.item.name # Undefined
  /\ NEW_ITEM_ID \in DOMAIN prev.byId
  /\ NEW_ITEM_ID \in DOMAIN collection.byId
  /\ Len(collection.order) = Len(prev.order) + 1

\* The collection the last deletion produced: the caller's collection for
\* the mutating deletions, the returned one for the copy-producing ones.
Outcome == IF last.op \in CopyingDeletions THEN returned ELSE collection

RECURSIVE DeleteEach(_, _)
DeleteEach(c, ids) ==
  IF ids = <<>> THEN c
  ELSE DeleteEach(deleteItemById(c, Head(ids)), Tail(ids))

\* The rearrangements of a list.
Rearrangements(ids) ==
  { [i \in 1..Len(ids) |-> ids[p[i]]] :
      p \in { q \in [1..Len(ids) -> 1..Len(ids)] :
                \A i, j \in 1..Len(ids) : q[i] = q[j] => i = j } }

\* C32: a batch deletion gives the `byId` and `order` that deleteItemById
\* gives when applied once per identifier of the batch, in any order of the
\* identifiers; a batch of one is the single deletion.
C32_BatchIsRepeatedSingle ==
  /\ last.op = "deleteItemsByIds" =>
       \A ids \in Rearrangements(last.ids) : collection = DeleteEach(prev, ids)
  /\ last.op = "copyAndDeleteItemsByIds" =>
       \A ids \in Rearrangements(last.ids) : returned = DeleteEach(prev, ids)

\* C32 witness: a batch of two different identifiers, both in an order that
\* holds a third, was deleted.
C32_Witness ==
  /\ last.op = "deleteItemsByIds"
  /\ Len(last.ids) = 2
  /\ last.ids[1] # last.ids[2]
  /\ Removed \subseteq Elements(prev.order)
  /\ Removed \subseteq DOMAIN prev.byId
  /\ Len(collection.order) = 1
  /\ Cardinality(Rearrangements(last.ids)) = 2

\* C33: getKey throws InvalidIdentifier, and returns no path, whenever the
\* identifier contains '.'; for any other identifier it returns 'byId.'
\* and the identifier, followed, where the sub-keys joined with '.' are not
\* empty, by '.' and the joined sub-keys.
C33_GetKeyPath ==
  last.op = "getKey" =>
    LET itemId == Head(last.ids)
        joined == Join(Tail(last.ids))
        base == ByIdPrefix \o itemId
    IN  IF IncludesDot(itemId)
        THEN err = InvalidIdentifier /\ returned = Undefined
        ELSE /\ err = NoError
             /\ returned.t = "string"
             /\ IsPrefix(base, returned.v)
             /\ SubSeq(returned.v, Len(base) + 1, Len(returned.v)) =
                  IF joined = <<>> THEN <<>> ELSE <<".">> \o joined

\* C33 witness: getKey was called with the identifier 'a.b' and two
\* sub-keys, and threw.
C33_Witness ==
  /\ last.op = "getKey"
  /\ Head(last.ids) = <<"a", ".", "b">>
  /\ Len(last.ids) = 3
  /\ err = InvalidIdentifier
  /\ returned = Undefined

----------------------------------------------------------------------------
(* Claims about the insertion sorted by a key (under SpecSorted) *)

\* The ranks of the entities selectOrdered yields never decrease.
SortedByRank(c) ==
  LET seq == selectOrdered(c)
  IN  \A i \in 1..(Len(seq) - 1) : seq[i].rank.v[1] <= seq[i + 1].rank.v[1]

\* The last call was addItemSorted by rank, it returned, and the order it
\* was given was sorted by rank.
SortedInsertion ==
  /\ last.op = "addItemSorted"
  /\ last.key = "rank"
  /\ err = NoError
  /\ SortedByRank(prev)

\* The item of the last call carries the draft marker, and a draft was
\* pending: the iteratee of sortedIndexBy finds the draft entry under the
\* item's identifier.
ResolvedThroughDraft ==
  /\ last.item.id = Str(NEW_ITEM_ID)
  /\ NEW_ITEM_ID \in DOMAIN prev.byId

\* The position in `order` of the identifier the last call added.
NewPosition ==
  CHOOSE p \in 1..Len(collection.order) :
    collection.order[p] \notin Elements(prev.order)

\* The positions of `order` whose entity has the rank of the item of the
\* last call and was there before the call.
EqualRanked ==
  { q \in 1..Len(collection.order) :
      /\ q # NewPosition
      /\ collection.byId[collection.order[q]].rank = last.item.rank }

C12_InsertedAfterEqual ==
  SortedInsertion => \A q \in EqualRanked : q < NewPosition

\* C12 amended: an item whose key equals the key of existing items is
\* inserted before all existing items of that key (at the lowest index that
\* keeps the order sorted), unless the item carries the draft marker while a
\* draft is pending.
C12_InsertedBeforeEqual ==
  (SortedInsertion /\ ~ResolvedThroughDraft) =>
    /\ \A q \in EqualRanked : NewPosition < q
    /\ \A q \in 1..(NewPosition - 1) :
         collection.byId[collection.order[q]].rank.v[1] < last.item.rank.v[1]

\* C12 witness: an item was inserted by rank into an order that held two
\* items of its rank.
C12_Witness ==
  /\ SortedInsertion
  /\ ~ResolvedThroughDraft
  /\ Cardinality(EqualRanked) = 2

\* The entry createNewItemInFrontOf stores: the draft marker as `id` and
\* nothing else.
FreshDraft == Item(Str(NEW_ITEM_ID), Undefined)

\* C28: createNewItemInFrontOf called while a draft is pending, edited or
\* not, raises nothing, stores a fresh {id: draft marker} over the pending
\* entry, and leaves `order` and the other entries of `byId` as they were.
C28_SecondDraftOverwrites ==
  (last.op = "createNewItemInFrontOf" /\ NEW_ITEM_ID \in DOMAIN prev.byId) =>
    /\ err = NoError
    /\ collection.order = prev.order
    /\ DOMAIN collection.byId = DOMAIN prev.byId
    /\ collection.byId[NEW_ITEM_ID] = FreshDraft
    /\ \A k \in DOMAIN prev.byId \ {NEW_ITEM_ID} :
         collection.byId[k] = prev.byId[k]

\* C28 witness: a second draft was created over a draft that had been given
\* a name and a rank, beside two committed items.
C28_Witness ==
  /\ last.op = "createNewItemInFrontOf"
  /\ NEW_ITEM_ID \in DOMAIN prev.byId
  /\ prev.byId[NEW_ITEM_ID] \in DraftEdits
  /\ Len(prev.order) = 2
  /\ collection.byId[NEW_ITEM_ID] = FreshDraft

====
